---- MODULE Spec2Model ----
(***************************************************************************)
(* Model of thesis_plots/recoil_rates/limit_setting.py: the LZ detector's  *)
(* lazily built efficiency interpolator, LimitSetter._get_limit (the scan  *)
(* of the cross-section grid and the inverse interpolation) and            *)
(* LimitSetter.set_limits (the thread fan-out with its two polling loops). *)
(*                                                                         *)
(* Numbers.  Expected counts are integers in tenths of an event, so the    *)
(* threshold 2.3 is 23.  A log10 cross-section of the grid is written as   *)
(* its number of grid steps above log_sigma_range[0] (0, 1, 2, ...) and    *)
(* 10**sigma as an integer in hundredths of 10**log_sigma_range[0], one    *)
(* grid step being a factor 2.  A float is a record [nan, v].              *)
(***************************************************************************)
EXTENDS Integers, Sequences, FiniteSets, TLC

\* ---------------------------------------------------------------- bounds
MaxMasses == 2
MaxThreads == 1
MaxBins == 3

\* The masses _get_limit is solved for; each has its own response of the
\* rate integrand (see integrate_rate).
Masses == {1, 2, 3, 4, 5}

\* The masses a scan of set_limits may hold: the scan sees of a task only
\* how long it runs, whether it raises and what it stores.
ScanMasses == {1, 2}

VARIABLES
    mass_range,    \* set_limits argument: the sequence of masses
    n_threads,     \* set_limits argument
    sigmas,        \* np.linspace(*log_sigma_range, n_sigma_bins), in grid steps
    scipy_minval,  \* fewest points interp1d(kind='linear') accepts (1, or 2 in old scipy)
    itp_set,       \* detector._itp is not None
    itp_builds,    \* how many times line 34 built and assigned an interpolator
    results,       \* results[c]: the list `results` of the c-th set_limits call
    writes,        \* writes[c][k]: the threads that stored into results[c][k], in order
    thread,        \* every Thread object created so far, by creation order
    threads,       \* the local list `threads` of the running set_limits call
    i,             \* 1-based position of the for loop of set_limits
    n_alive,       \* the local n_alive of set_limits
    pc,            \* where set_limits is: "loop", "final", "returned"
    returned       \* the arrays returned by the finished set_limits calls

vars == <<mass_range, n_threads, sigmas, scipy_minval, itp_set, itp_builds,
          results, writes, thread, threads, i, n_alive, pc, returned>>

\* ---------------------------------------------------------------- values
Num(v) == [nan |-> FALSE, v |-> v]
NaN == [nan |-> TRUE, v |-> 0]

\* class attribute LimitSetter.no_background_possion = 2.3, in tenths
no_background_possion == 23

\* 10**s for a log cross-section s of the grid
TenPow(s) == 100 * (2 ^ s)

\* integrate_rate(mw, s): the expected count.  wimprates.rate_wimp is
\* external; these are five responses it can give.  Masses 1, 2, 4 and 5
\* are linear in the cross-section: mass 1 crosses the threshold at the
\* second grid point (on a shorter grid, never), mass 2 is above it at the
\* first, mass 4 stays below it on the whole grid, mass 5 is exactly at it
\* at the first grid point.  Mass 3 is not monotone.
integrate_rate(mw, s) ==
    CASE mw = 1 -> 15 * (2 ^ s)
      [] mw = 2 -> 30 * (2 ^ s)
      [] mw = 3 -> IF s = 0 THEN 20 ELSE IF s = 1 THEN 5 ELSE 40
      [] mw = 4 -> 2 ^ s
      [] OTHER  -> 23 * (2 ^ s)

\* ------------------------------------------------- scipy.interpolate.interp1d
\* np.argsort(x, kind="mergesort"): the stable sorting permutation
Argsort(xs) ==
    CHOOSE p \in [1..Len(xs) -> 1..Len(xs)] :
        /\ \A a, b \in 1..Len(xs) : a # b => p[a] # p[b]
        /\ \A a, b \in 1..Len(xs) :
              a < b => \/ xs[p[a]] < xs[p[b]]
                       \/ (xs[p[a]] = xs[p[b]] /\ p[a] < p[b])

\* np.interp on sorted points, x_new inside [x[1], x[n]]
NpInterp(x, y, x_new) ==
    LET n == Len(x)
        j == CHOOSE k \in 1..n : x[k] <= x_new /\ (k = n \/ x[k + 1] > x_new)
    IN  IF j = n THEN y[n]
        ELSE y[j] + ((x_new - x[j]) * (y[j + 1] - y[j])) \div (x[j + 1] - x[j])

\* interp1d(xs, ys, bounds_error=False)(x_new): raises when there are too
\* few points, is nan (the default fill_value) outside [min xs, max xs]
Interp1d(xs, ys, x_new) ==
    IF Len(xs) < scipy_minval
    THEN [raised |-> TRUE, val |-> NaN]
    ELSE LET p == Argsort(xs)
             x == [k \in 1..Len(xs) |-> xs[p[k]]]
             y == [k \in 1..Len(xs) |-> ys[p[k]]]
         IN  IF x_new < x[1] \/ x_new > x[Len(x)]
             THEN [raised |-> FALSE, val |-> NaN]
             ELSE [raised |-> FALSE, val |-> Num(NpInterp(x, y, x_new))]

\* ---------------------------------------------------------------- threads
is_alive(t) == thread[t].pc # "dead"

\* Thread(target=self._get_limit, args=(results, sigmas, result_i, mw)), started
NewThread(c, result_i, mw) ==
    [call |-> c, result_i |-> result_i, mw |-> mw,
     pc |-> IF Len(sigmas) = 0 THEN "interp" ELSE "query",
     n_observed |-> <<>>, rate_calls |-> <<>>, handed |-> <<>>,
     failed |-> FALSE]

\* `if n_i > self.no_background_possion: break`
BreakNever(n_i) == FALSE
Exceeds(n_i) == n_i > no_background_possion

\* 10**sigmas[:len(n_observed)]
HandedYLog(n) == [k \in 1..n |-> sigmas[k]]
HandedY(n) == [k \in 1..n |-> TenPow(sigmas[k])]

\* the index `results[result_i] = ...` writes
StoreIndexShared(t) == i - 1
StoreIndex(t) == thread[t].result_i

\* `while len(threads) > n_threads`
LaunchBlockedGE == Len(threads) >= n_threads
LaunchBlocked == Len(threads) > n_threads

\* ------------------------------------------------------ LZ._itp_eff (lazy)
\* line 32, `if self._itp is None`, reached from integrate_rate through
\* d_rate and combined_efficiency, finds None: the thread goes on to build.
\* (A query that finds _itp set changes nothing and never can again, _itp
\* is only ever set: it is part of Integrate.)
EffQuery(t) ==
    /\ thread[t].pc = "query"
    /\ ~itp_set
    /\ thread' = [thread EXCEPT ![t].pc = "build"]
    /\ UNCHANGED <<mass_range, n_threads, sigmas, scipy_minval, itp_set,
                   itp_builds, results, writes, threads, i, n_alive, pc,
                   returned>>

\* lines 33-34: read the table, build the interpolator, assign self._itp
ItpBuild(t) ==
    /\ thread[t].pc = "build"
    /\ itp_set' = TRUE
    /\ itp_builds' = itp_builds + 1
    /\ thread' = [thread EXCEPT ![t].pc = "rate"]
    /\ UNCHANGED <<mass_range, n_threads, sigmas, scipy_minval, results,
                   writes, threads, i, n_alive, pc, returned>>

\* ------------------------------------------------- LimitSetter._get_limit
\* lines 62-66, one pass of `for s in sigmas`: integrate (the efficiency
\* queries of lines 123-124 find the interpolator), append, maybe break
Integrate(t) ==
    /\ \/ thread[t].pc = "rate"
       \/ thread[t].pc = "query" /\ itp_set
    /\ LET th  == thread[t]
           k   == Len(th.n_observed) + 1
           s   == sigmas[k]
           n_i == integrate_rate(th.mw, s)
       IN  thread' = [thread EXCEPT
                ![t].n_observed = Append(@, n_i),
                ![t].rate_calls = Append(@, s),
                ![t].pc = IF Exceeds(n_i) \/ k = Len(sigmas)
                          THEN "interp" ELSE "query"]
    /\ UNCHANGED <<mass_range, n_threads, sigmas, scipy_minval, itp_set,
                   itp_builds, results, writes, threads, i, n_alive, pc,
                   returned>>

\* lines 68-69: build the inverse interpolator over the collected pairs and
\* store its value at the threshold; an exception ends the thread
Interpolate(t) ==
    /\ thread[t].pc = "interp"
    /\ LET th == thread[t]
           n  == Len(th.n_observed)
           ys == HandedY(n)
           r  == Interp1d(th.n_observed, ys, no_background_possion)
           h  == [k \in 1..n |-> <<ys[k], th.n_observed[k]>>]
           c  == th.call
           ix == StoreIndex(t)
       IN  IF r.raised
           THEN /\ thread' = [thread EXCEPT ![t].handed = h,
                                            ![t].failed = TRUE,
                                            ![t].pc = "dead"]
                /\ UNCHANGED <<results, writes>>
           ELSE /\ thread' = [thread EXCEPT ![t].handed = h,
                                            ![t].pc = "stored"]
                /\ results' = [results EXCEPT ![c][ix] = r.val]
                /\ writes' = [writes EXCEPT ![c][ix] = Append(@, t)]
    /\ UNCHANGED <<mass_range, n_threads, sigmas, scipy_minval, itp_set,
                   itp_builds, threads, i, n_alive, pc, returned>>

\* _get_limit returns and the thread ends
Finish(t) ==
    /\ thread[t].pc = "stored"
    /\ thread' = [thread EXCEPT ![t].pc = "dead"]
    /\ UNCHANGED <<mass_range, n_threads, sigmas, scipy_minval, itp_set,
                   itp_builds, results, writes, threads, i, n_alive, pc,
                   returned>>

\* -------------------------------------------------- LimitSetter.set_limits
\* the call that is running (1-based)
Call == Len(returned) + 1

\* lines 94-96: one pass of the launch-side wait loop
LaunchPoll ==
    /\ pc = "loop"
    /\ i <= Len(mass_range)
    /\ LaunchBlocked
    /\ threads' = SelectSeq(threads, is_alive)
    /\ UNCHANGED <<mass_range, n_threads, sigmas, scipy_minval, itp_set,
                   itp_builds, results, writes, thread, i, n_alive, pc,
                   returned>>

\* lines 97-100: create the thread of mass_range[i], start it, append it
Launch ==
    /\ pc = "loop"
    /\ i <= Len(mass_range)
    /\ ~LaunchBlocked
    /\ thread' = Append(thread, NewThread(Call, i, mass_range[i]))
    /\ threads' = Append(threads, Len(thread) + 1)
    /\ i' = i + 1
    /\ UNCHANGED <<mass_range, n_threads, sigmas, scipy_minval, itp_set,
                   itp_builds, results, writes, n_alive, pc, returned>>

\* lines 102-103: the for loop is over, `n_alive = n_threads`
FinalInit ==
    /\ pc = "loop"
    /\ i > Len(mass_range)
    /\ n_alive' = n_threads
    /\ pc' = "final"
    /\ UNCHANGED <<mass_range, n_threads, sigmas, scipy_minval, itp_set,
                   itp_builds, results, writes, thread, threads, i, returned>>

\* lines 104-108: one pass of the final wait loop
FinalPoll ==
    /\ pc = "final"
    /\ n_alive # 0
    /\ n_alive' = Cardinality({k \in 1..Len(threads) : is_alive(threads[k])})
    /\ UNCHANGED <<mass_range, n_threads, sigmas, scipy_minval, itp_set,
                   itp_builds, results, writes, thread, threads, i, pc,
                   returned>>

\* line 111: `return np.array(results)`, a copy of the list as it is now
Return ==
    /\ pc = "final"
    /\ n_alive = 0
    /\ returned' = Append(returned, results[Call])
    /\ pc' = "returned"
    /\ UNCHANGED <<mass_range, n_threads, sigmas, scipy_minval, itp_set,
                   itp_builds, results, writes, thread, threads, i, n_alive>>

\* lines 87-90 of a second call with the same arguments on the same
\* LimitSetter: a new results list and an empty threads list; the detector
\* keeps its _itp and threads of the first call that still run keep running
CallAgain ==
    /\ pc = "returned"
    /\ Len(returned) < 2
    /\ results' = Append(results, [k \in 1..Len(mass_range) |-> Num(0)])
    /\ writes' = Append(writes, [k \in 1..Len(mass_range) |-> <<>>])
    /\ threads' = <<>>
    /\ i' = 1
    /\ n_alive' = 0
    /\ pc' = "loop"
    /\ UNCHANGED <<mass_range, n_threads, sigmas, scipy_minval, itp_set,
                   itp_builds, thread, returned>>

\* ---------------------------------------------------------- specifications
\* lines 16-22, 49-57 and 87-90: a fresh detector (_itp = None) and the
\* first lines of set_limits
Init ==
    /\ mass_range \in UNION {[1..n -> ScanMasses] : n \in 0..MaxMasses}
    /\ n_threads \in 0..MaxThreads
    /\ sigmas \in {[j \in 1..n |-> j - 1] : n \in 0..MaxBins}
    /\ scipy_minval \in {1, 2}
    /\ itp_set = FALSE
    /\ itp_builds = 0
    /\ results = <<[k \in 1..Len(mass_range) |-> Num(0)]>>
    /\ writes = <<[k \in 1..Len(mass_range) |-> <<>>]>>
    /\ thread = <<>>
    /\ threads = <<>>
    /\ i = 1
    /\ n_alive = 0
    /\ pc = "loop"
    /\ returned = <<>>

Next ==
    \/ \E t \in DOMAIN thread : EffQuery(t)
    \/ \E t \in DOMAIN thread : ItpBuild(t)
    \/ \E t \in DOMAIN thread : Integrate(t)
    \/ \E t \in DOMAIN thread : Interpolate(t)
    \/ \E t \in DOMAIN thread : Finish(t)
    \/ LaunchPoll
    \/ Launch
    \/ FinalInit
    \/ FinalPoll
    \/ Return

Spec == Init /\ [][Next]_vars

\* The interpreter runs every live thread again and again: a step that can
\* change the state is eventually taken.
FairSpec == Spec /\ WF_vars(Next)

\* _get_limit(results, sigmas, 0, mw) alone, as the one thread of a scan of
\* the single mass mw, on a detector that is fresh or was used before
InitLimit ==
    /\ mass_range \in {<<mw>> : mw \in Masses}
    /\ n_threads = 1
    /\ sigmas \in {[j \in 1..n |-> j - 1] : n \in 0..MaxBins}
    /\ scipy_minval \in {1, 2}
    /\ itp_set \in BOOLEAN
    /\ itp_builds = 0
    /\ results = <<<<Num(0)>>>>
    /\ writes = <<<<<<>>>>>>
    /\ thread = <<NewThread(1, 1, mass_range[1])>>
    /\ threads = <<1>>
    /\ i = 2
    /\ n_alive = 0
    /\ pc = "loop"
    /\ returned = <<>>

NextLimit ==
    \/ \E t \in DOMAIN thread : EffQuery(t)
    \/ \E t \in DOMAIN thread : ItpBuild(t)
    \/ \E t \in DOMAIN thread : Integrate(t)
    \/ \E t \in DOMAIN thread : Interpolate(t)
    \/ \E t \in DOMAIN thread : Finish(t)

SpecLimit == InitLimit /\ [][NextLimit]_vars

\* set_limits called twice with the same arguments
NextTwice == Next \/ CallAgain

SpecTwice == Init /\ [][NextTwice]_vars

\* ------------------------------------------------------------------ claims
Alive == {t \in DOMAIN thread : is_alive(t)}

\* _get_limit has built its interpolator (and stored, unless it raised)
Solved(t) == thread[t].pc \in {"stored", "dead"}

\* the grid positions whose count is above the threshold
Above(mw) == {k \in 1..Len(sigmas) : integrate_rate(mw, sigmas[k]) > no_background_possion}

\* the first grid position above the threshold, or the length of the grid
PrefixLen(mw) ==
    IF Above(mw) = {} THEN Len(sigmas)
    ELSE CHOOSE k \in Above(mw) : \A m \in Above(mw) : k <= m

\* what _get_limit(mw) is to store: the inverse interpolation over the grid
\* prefix
SolvedLimit(mw) ==
    LET n == PrefixLen(mw)
    IN  Interp1d([k \in 1..n |-> integrate_rate(mw, sigmas[k])],
                 [k \in 1..n |-> TenPow(sigmas[k])],
                 no_background_possion)

\* a float inside [10^min_log_sigma, 10^max_log_sigma]
InGrid(v) ==
    /\ ~v.nan
    /\ Len(sigmas) > 0
    /\ TenPow(sigmas[1]) <= v.v
    /\ v.v <= TenPow(sigmas[Len(sigmas)])

\* C1: with a concurrency limit k >= 1, the number of solve threads that
\* are started and not finished never exceeds k.
C1_ConcurrencyCap ==
    n_threads >= 1 => Cardinality(Alive) <= n_threads

\* C2: the returned vector has len(mass_range) entries and entry k is the
\* limit solved for mass_range[k].
C2_ResultsAligned ==
    pc = "returned" =>
        /\ Len(returned[1]) = Len(mass_range)
        /\ \A k \in 1..Len(mass_range) :
              /\ ~SolvedLimit(mass_range[k]).raised
              /\ returned[1][k] = SolvedLimit(mass_range[k]).val

\* C3: when set_limits has returned, no thread it launched is still alive.
C3_ReturnsAfterAllFinished ==
    pc = "returned" => Alive = {}

\* C4: set_limits never returns normally with the slot of a failed task
\* left at its initial 0.
C4_FailureReported ==
    pc = "returned" =>
        \A t \in DOMAIN thread :
            thread[t].failed => returned[1][thread[t].result_i] # Num(0)

\* C5, as stated: whenever some grid point is above the threshold (the
\* first one included), the slot of a finished _get_limit holds a value
\* inside [10^min_log_sigma, 10^max_log_sigma].
C5_LimitInGridOriginal ==
    \A t \in DOMAIN thread :
        (Solved(t) /\ Above(thread[t].mw) # {}) =>
            InGrid(results[thread[t].call][thread[t].result_i])

\* C5, amended: whenever the first grid point is not above the threshold
\* and a later one is, the slot of a finished _get_limit holds a value
\* inside [10^min_log_sigma, 10^max_log_sigma], which is not negative.
C5_LimitInGrid ==
    \A t \in DOMAIN thread :
        (Solved(t) /\ Above(thread[t].mw) # {} /\ 1 \notin Above(thread[t].mw)) =>
            /\ InGrid(results[thread[t].call][thread[t].result_i])
            /\ results[thread[t].call][thread[t].result_i].v >= 0

C5_Witness ==
    \E t \in DOMAIN thread :
        /\ Solved(t)
        /\ Above(thread[t].mw) # {}
        /\ 1 \notin Above(thread[t].mw)
        /\ results[thread[t].call][thread[t].result_i] = Num(153)

\* C6: two calls of set_limits with the same arguments return the same
\* vector.
C6_Idempotent ==
    Len(returned) = 2 => returned[1] = returned[2]

\* C7: the integrator is called on the grid points in grid order, each at
\* most once and never after a point above the threshold; the pairs handed
\* to interp1d are the grid prefix up to and including the first point above
\* the threshold, or the whole grid.
C7_ScanStopsAtThreshold ==
    \A t \in DOMAIN thread :
        LET th == thread[t]
        IN  /\ Len(th.rate_calls) <= Len(sigmas)
            /\ \A k \in 1..Len(th.rate_calls) : th.rate_calls[k] = sigmas[k]
            /\ \A k \in 1..(Len(th.rate_calls) - 1) :
                  integrate_rate(th.mw, th.rate_calls[k]) <= no_background_possion
            /\ Solved(t) =>
                  th.handed = [k \in 1..PrefixLen(th.mw) |->
                                  <<TenPow(sigmas[k]), integrate_rate(th.mw, sigmas[k])>>]

C7_Witness ==
    \E t \in DOMAIN thread :
        /\ Solved(t)
        /\ Len(thread[t].handed) = 2
        /\ Len(sigmas) = 3
        /\ thread[t].rate_calls = <<0, 1>>

\* C8: the detector's efficiency interpolator is built and assigned at most
\* once.
C8_BuiltAtMostOnce ==
    itp_builds <= 1

\* C9: a slot of the result vector is written at most once, only by the
\* thread launched for its index, and is 0 until then.
C9_SlotDiscipline ==
    \A c \in DOMAIN writes :
        \A k \in DOMAIN writes[c] :
            /\ Len(writes[c][k]) <= 1
            /\ \A w \in 1..Len(writes[c][k]) :
                  /\ thread[writes[c][k][w]].result_i = k
                  /\ thread[writes[c][k][w]].call = c
            /\ writes[c][k] = <<>> => results[c][k] = Num(0)

C9_Witness ==
    /\ Len(mass_range) = 2
    /\ writes[1][1] = <<>>
    /\ writes[1][2] = <<2>>
    /\ results[1][2] # Num(0)
    /\ is_alive(1)

\* C10: if every launched thread eventually finishes, set_limits eventually
\* returns, for every grid (the empty one too) and every n_threads >= 0.
C10_Terminates ==
    <>(pc = "returned")

C10_Witness ==
    /\ pc = "returned"
    /\ Len(mass_range) = 2
    /\ n_threads = 0
    /\ returned[1][1] # Num(0)

====
